---- MODULE Spec2Model ----
(***************************************************************************)
(* Model of gemini_robot.py: the two file-system tools (find_files,        *)
(* organize_files) over an in-memory directory tree, and the interactive   *)
(* chat_session loop with its rate-limit retry.                            *)
(*                                                                         *)
(* Strings are sequences of one-character strings, so that prefix tests,   *)
(* path joins, basename/dirname/splitext and extension normalisation are   *)
(* computed the way the Python code computes them.                         *)
(***************************************************************************)
EXTENDS Integers, Sequences, FiniteSets, TLC

VARIABLES
    fs,        \* the directory tree: sequence of entries, in directory-listing order
    pc,        \* position of the tool caller: "idle", "moving" (inside organize_files' loop)
    calls,     \* number of tool calls made so far
    last,      \* the last completed tool call: arguments, return value, console notices,
               \* and for the record the tree at the call (fs0) and the loop's log
    org,       \* local variables of the organize_files call in progress, with the tree
               \* at the call (fs0) and before the latest iteration (before)
    chat       \* chat_session: position, user_input, retry_count, and the turns so far

vars == <<fs, pc, calls, last, org, chat>>

(***************************************************************************)
(* Python string helpers                                                   *)
(***************************************************************************)
Min(a, b) == IF a <= b THEN a ELSE b

\* str.startswith
startswith(s, p) == Len(p) <= Len(s) /\ SubSeq(s, 1, Len(p)) = p

\* str.endswith
endswith(s, p) == Len(p) <= Len(s) /\ SubSeq(s, Len(s) - Len(p) + 1, Len(s)) = p

\* str.rfind, 1-based: the last index of character c in s, 0 when absent
rfind(s, c) ==
    LET I == {i \in 1..Len(s) : s[i] = c}
    IN  IF I = {} THEN 0 ELSE CHOOSE i \in I : \A j \in I : j <= i

\* the upper-case letters of the model's alphabet and their lower-case forms
LowerChar(c) ==
    CASE c = "T" -> "t"
      [] c = "P" -> "p"
      [] c = "E" -> "e"
      [] c = "X" -> "x"
      [] c = "I" -> "i"
      [] c = "Q" -> "q"
      [] c = "U" -> "u"
      [] OTHER   -> c

\* str.lower
lower(s) == [i \in 1..Len(s) |-> LowerChar(s[i])]

\* str.lstrip(chars)
RECURSIVE lstrip(_, _)
lstrip(s, cs) == IF s # <<>> /\ Head(s) \in cs THEN lstrip(Tail(s), cs) ELSE s

\* str.rstrip(chars)
RECURSIVE rstrip(_, _)
rstrip(s, cs) ==
    IF s # <<>> /\ s[Len(s)] \in cs THEN rstrip(SubSeq(s, 1, Len(s) - 1), cs) ELSE s

\* str.split('/')
RECURSIVE split(_)
split(s) ==
    LET I == {i \in 1..Len(s) : s[i] = "/"}
    IN  IF I = {} THEN <<s>>
        ELSE LET i == CHOOSE k \in I : \A j \in I : k <= j
             IN  <<SubSeq(s, 1, i - 1)>> \o split(SubSeq(s, i + 1, Len(s)))

\* '/'.join(comps)
RECURSIVE joinSlash(_)
joinSlash(comps) ==
    IF comps = <<>> THEN <<>>
    ELSE IF Len(comps) = 1 THEN comps[1]
    ELSE comps[1] \o <<"/">> \o joinSlash(Tail(comps))

(***************************************************************************)
(* posixpath                                                               *)
(***************************************************************************)
\* the process's current working directory
cwd == <<"/">>

\* os.path.join(a, b)
join(a, b) ==
    IF b # <<>> /\ b[1] = "/" THEN b
    ELSE IF a = <<>> \/ a[Len(a)] = "/" THEN a \o b
    ELSE a \o <<"/">> \o b

\* the component loop of os.path.normpath
RECURSIVE normComps(_, _, _)
normComps(comps, acc, initial) ==
    IF comps = <<>> THEN acc
    ELSE LET c == Head(comps)
         IN  IF c = <<>> \/ c = <<".">> THEN normComps(Tail(comps), acc, initial)
             ELSE IF c # <<".", ".">>
                     \/ (initial = 0 /\ acc = <<>>)
                     \/ (acc # <<>> /\ acc[Len(acc)] = <<".", ".">>)
                  THEN normComps(Tail(comps), Append(acc, c), initial)
             ELSE IF acc # <<>>
                  THEN normComps(Tail(comps), SubSeq(acc, 1, Len(acc) - 1), initial)
             ELSE normComps(Tail(comps), acc, initial)

\* os.path.normpath
normpath(p) ==
    IF p = <<>> THEN <<".">>
    ELSE LET initial == IF ~startswith(p, <<"/">>) THEN 0
                        ELSE IF startswith(p, <<"/", "/">>) /\ ~startswith(p, <<"/", "/", "/">>)
                             THEN 2 ELSE 1
             body == joinSlash(normComps(split(p), <<>>, initial))
             r == [i \in 1..initial |-> "/"] \o body
         IN  IF r = <<>> THEN <<".">> ELSE r

\* os.path.abspath
abspath(p) == normpath(IF startswith(p, <<"/">>) THEN p ELSE join(cwd, p))

\* os.path.basename
basename(p) == SubSeq(p, rfind(p, "/") + 1, Len(p))

\* os.path.dirname
dirname(p) ==
    LET head == SubSeq(p, 1, rfind(p, "/"))
    IN  IF head # <<>> /\ \E i \in 1..Len(head) : head[i] # "/"
        THEN rstrip(head, {"/"}) ELSE head

\* os.path.splitext: <<root, ext>>; leading dots of the last component are not an extension
splitext(p) ==
    LET sepIndex == rfind(p, "/")
        dotIndex == rfind(p, ".")
    IN  IF dotIndex > sepIndex
           /\ \E i \in (sepIndex + 1)..(dotIndex - 1) : p[i] # "."
        THEN <<SubSeq(p, 1, dotIndex - 1), SubSeq(p, dotIndex, Len(p))>>
        ELSE <<p, <<>>>>

(***************************************************************************)
(* String literals of the program                                          *)
(***************************************************************************)
ErrorDuringSearch == <<"E", "r", "r", "o", "r", " ", "d", "u", "r", "i", "n", "g", " ", "s", "e", "a", "r", "c", "h", ":", " ">>
NoFilesWithExtension == <<"N", "o", " ", "f", "i", "l", "e", "s", " ", "w", "i", "t", "h", " ", "e", "x", "t", "e", "n", "s", "i", "o", "n", " ", ".">>
FoundIn == <<" ", "f", "o", "u", "n", "d", " ", "i", "n", " ">>
ErrorLit == <<"E", "r", "r", "o", "r">>
NoFilesLit == <<"N", "o", " ", "f", "i", "l", "e", "s">>
FailedToCreate == <<"F", "a", "i", "l", "e", "d", " ", "t", "o", " ", "c", "r", "e", "a", "t", "e", " ", "t", "a", "r", "g", "e", "t", " ", "d", "i", "r", "e", "c", "t", "o", "r", "y", ":", " ">>
SuccessfullyMoved == <<"S", "u", "c", "c", "e", "s", "s", "f", "u", "l", "l", "y", " ", "m", "o", "v", "e", "d", " ">>
FilesTo == <<" ", "f", "i", "l", "e", "s", " ", "t", "o", " ">>
ErrorsEncountered == <<"\n", "E", "r", "r", "o", "r", "s", " ", "e", "n", "c", "o", "u", "n", "t", "e", "r", "e", "d", ":", " ">>
FailedToMove == <<"F", "a", "i", "l", "e", "d", " ", "t", "o", " ", "m", "o", "v", "e", " ">>

\* str(e) of the exceptions the file system raises
EACCES == <<"d", "e", "n", "i", "e", "d">>
ENOENT == <<"m", "i", "s", "s", "i", "n", "g">>
ENOTDIR == <<"n", "o", "t", "d", "i", "r">>
EINTO == <<"i", "n", "t", "o", " ", "i", "t", "s", "e", "l", "f">>
EEXIST == <<"e", "x", "i", "s", "t", "s">>

\* str(n) for a non-negative integer
Digit(d) == <<"0", "1", "2", "3", "4", "5", "6", "7", "8", "9">>[d + 1]

RECURSIVE str(_)
str(n) == IF n < 10 THEN <<Digit(n)>> ELSE str(n \div 10) \o <<Digit(n % 10)>>

\* sep.join(strings)
RECURSIVE joinWith(_, _)
joinWith(sep, ss) ==
    IF ss = <<>> THEN <<>>
    ELSE IF Len(ss) = 1 THEN ss[1]
    ELSE ss[1] \o sep \o joinWith(sep, Tail(ss))

(***************************************************************************)
(* The file system.  An entry is [path, kind, id]: an absolute normalised  *)
(* path, "file" or "dir", and an identity that stands for the content.     *)
(* The order of the entries is the order in which a directory lists them.  *)
(***************************************************************************)
Paths(f) == {f[i].path : i \in 1..Len(f)}

\* the entry at an absolute path
EntryAt(f, ap) == f[CHOOSE i \in 1..Len(f) : f[i].path = ap]

\* os.path.exists
exists(f, p) == abspath(p) \in Paths(f)

\* the absolute path ap is a directory
IsDirAt(f, ap) == ap \in Paths(f) /\ EntryAt(f, ap).kind = "dir"

\* os.path.isdir
isdir(f, p) == IsDirAt(f, abspath(p))

\* the names directly in the directory at absolute path ap, in listing order
NamesAt(f, ap) ==
    IF ~IsDirAt(f, ap) THEN <<>>
    ELSE SelectSeq([i \in 1..Len(f) |-> IF f[i].path # ap /\ dirname(f[i].path) = ap
                                        THEN basename(f[i].path) ELSE <<>>],
                   LAMBDA n : n # <<>>)

\* os.listdir / os.scandir: the names in directory p, in listing order
listdir(f, p) == NamesAt(f, abspath(p))

\* concatenation of a sequence of sequences
RECURSIVE Flatten(_)
Flatten(ss) == IF ss = <<>> THEN <<>> ELSE Head(ss) \o Flatten(Tail(ss))

(***************************************************************************)
(* glob.iglob(join(search_path, "**/*.<ext>"), recursive=True)             *)
(***************************************************************************)
\* glob._ishidden
ishidden(name) == name # <<>> /\ name[1] = "."

\* fnmatch of a name against "*.<ext>" (ext holds no wildcard in this model)
fnmatch(name, ext) == endswith(name, <<".">> \o ext)

\* glob._glob1(dirname, "*.<ext>"): files and directories alike, hidden names left out
glob1(f, d, ext) ==
    SelectSeq(listdir(f, d), LAMBDA n : ~ishidden(n) /\ fnmatch(n, ext))

\* each member of a sequence of relative paths joined to the directory d
Prefixed(d, names) == [j \in 1..Len(names) |-> join(d, names[j])]

\* the visible sub-directories among the names of directory d
SubDirs(f, d, names) == SelectSeq(names, LAMBDA n : ~ishidden(n) /\ isdir(f, join(d, n)))

\* glob._rlistdir(dirname, dironly=True): the sub-directories, pre-order, relative to d
RECURSIVE rlistdir(_, _)
RECURSIVE rlistdirOf(_, _, _)
rlistdirOf(f, d, names) ==
    Flatten([i \in 1..Len(names) |->
               <<names[i]>> \o Prefixed(names[i], rlistdir(f, join(d, names[i])))])

rlistdir(f, d) == rlistdirOf(f, d, SubDirs(f, d, listdir(f, d)))

\* glob._glob2(search_path, "**", dironly=True), each joined to search_path
globDirs(f, sp) ==
    IF ~isdir(f, sp) THEN <<>>
    ELSE <<join(sp, <<>>)>> \o Prefixed(sp, rlistdir(f, sp))

\* the matches of "*.<ext>" in each directory of ds, in order
GlobIn(f, ds, ext) ==
    Flatten([i \in 1..Len(ds) |-> Prefixed(ds[i], glob1(f, ds[i], ext))])

\* the paths iglob yields, in the order it yields them
iglob(f, sp, ext) == GlobIn(f, globDirs(f, sp), ext)

(***************************************************************************)
(* find_files                                                              *)
(***************************************************************************)
\* the cap on the number of returned paths
FindCap == 50

\* ext = file_extension.lower().lstrip('.')
CleanExt(file_extension) == lstrip(lower(file_extension), {"."})

\* the drive-root heuristic of the safety check
IsDriveRoot(search_path) == endswith(rstrip(search_path, {"/", "\\"}), <<":">>)

\* the for loop over iglob stopping only once the count has passed the cap
RECURSIVE FindLoop_CapAfter(_, _, _)
FindLoop_CapAfter(rest, found_files, count) ==
    IF rest = <<>> THEN [found |-> found_files, capped |-> FALSE]
    ELSE LET found1 == Append(found_files, abspath(Head(rest)))
             count1 == count + 1
         IN  IF count1 > FindCap
             THEN [found |-> found1, capped |-> TRUE]
             ELSE FindLoop_CapAfter(Tail(rest), found1, count1)

\* the for loop over iglob: append, count, stop at the cap.
\* Yields [found, capped]: the list and whether the cap notice was printed.
RECURSIVE FindLoop(_, _, _)
FindLoop(rest, found_files, count) ==
    IF rest = <<>> THEN [found |-> found_files, capped |-> FALSE]
    ELSE LET found1 == Append(found_files, abspath(Head(rest)))
             count1 == count + 1
         IN  IF count1 >= FindCap
             THEN [found |-> found1, capped |-> TRUE]
             ELSE FindLoop(Tail(rest), found1, count1)

\* search_pattern = os.path.join(search_path, f"**/*.{ext}")
SearchPattern(search_path, ext) == join(search_path, <<"*", "*", "/", "*", ".">> \o ext)

\* the notice printed when the search root looks like a drive root
DriveWarning(search_path) == IF IsDriveRoot(search_path) THEN {"drive"} ELSE {}

\* find_files without the "No files" return: an empty loop outcome is returned as it is
FindResult_NoSentinel(ext, search_path, raises, loop) ==
    IF raises
    THEN [ret |-> <<ErrorDuringSearch \o EACCES>>, out |-> DriveWarning(search_path),
          pattern |-> SearchPattern(search_path, ext)]
    ELSE [ret |-> loop.found,
          out |-> DriveWarning(search_path) \cup {"found"}
                  \cup (IF loop.capped THEN {"cap"} ELSE {}),
          pattern |-> SearchPattern(search_path, ext)]

\* what find_files returns and prints, given the outcome of its loop
FindResult(ext, search_path, raises, loop) ==
    IF raises
    THEN [ret |-> <<ErrorDuringSearch \o EACCES>>, out |-> DriveWarning(search_path),
          pattern |-> SearchPattern(search_path, ext)]
    ELSE IF loop.found = <<>>
    THEN [ret |-> <<NoFilesWithExtension \o ext \o FoundIn \o search_path>>,
          out |-> DriveWarning(search_path), pattern |-> SearchPattern(search_path, ext)]
    ELSE [ret |-> loop.found,
          out |-> DriveWarning(search_path) \cup {"found"}
                  \cup (IF loop.capped THEN {"cap"} ELSE {}),
          pattern |-> SearchPattern(search_path, ext)]

\* find_files(file_extension, search_path) on file system f; raises tells whether
\* the traversal raises an exception.  Yields [ret, out, pattern]: the returned list,
\* the set of console notices printed, and the glob pattern that was searched.
find_files(f, file_extension, search_path, raises) ==
    FindResult(CleanExt(file_extension), search_path, raises,
               FindLoop(iglob(f, search_path, CleanExt(file_extension)), <<>>, 0))

(***************************************************************************)
(* File-system updates: os.makedirs and shutil.move                        *)
(***************************************************************************)
\* a fresh content identity
RECURSIVE MaxId(_)
MaxId(f) == IF f = <<>> THEN 0
            ELSE LET m == MaxId(Tail(f)) IN IF Head(f).id > m THEN Head(f).id ELSE m

\* true when absolute path ap is p or lies below p
Under(ap, p) == ap = p \/ startswith(ap, p \o <<"/">>)

\* a new directory at absolute path ap, added to the outcome of creating its parent
MakeChild(up, ap) ==
    IF ~up.ok THEN up
    ELSE [ok |-> TRUE,
          fs |-> Append(up.fs, [path |-> ap, kind |-> "dir",
                                id |-> MaxId(up.fs) + 1, locked |-> FALSE]),
          err |-> <<>>]

\* os.makedirs of the absolute path ap: creates ap and its missing ancestors
RECURSIVE makedirsAt(_, _)
makedirsAt(f, ap) ==
    IF ap \in Paths(f)
    THEN IF EntryAt(f, ap).kind = "dir"
         THEN [ok |-> TRUE, fs |-> f, err |-> <<>>]
         ELSE [ok |-> FALSE, fs |-> f, err |-> ENOTDIR]
    ELSE IF ap = <<"/">>
    THEN [ok |-> TRUE, fs |-> f, err |-> <<>>]
    ELSE MakeChild(makedirsAt(f, dirname(ap)), ap)

\* os.makedirs(p); [ok, fs, err]
makedirs(f, p) == makedirsAt(f, abspath(p))

\* the entries of f with the prefix asrc of every path at or below asrc changed to adst
Reprefixed(f, asrc, adst) ==
    [i \in 1..Len(f) |->
        IF Under(f[i].path, asrc)
        THEN [f[i] EXCEPT !.path = adst \o SubSeq(@, Len(asrc) + 1, Len(@))]
        ELSE f[i]]

\* os.rename(src, dst) of an existing, unlocked src onto dst: the entry and
\* everything below it change prefix; a file at dst is replaced; the moved
\* entry is listed last in its new directory.
rename(f, asrc, adst) ==
    Append(Reprefixed(SelectSeq(f, LAMBDA e : e.path # adst /\ e.path # asrc), asrc, adst),
           [EntryAt(f, asrc) EXCEPT !.path = adst])

\* the real destination of shutil.move: inside dst when dst is a directory
RealDst(f, src, dst) ==
    IF isdir(f, dst) THEN join(dst, basename(rstrip(src, {"/"}))) ELSE dst

\* a failed move
MoveFails(f, adst, e) == [ok |-> FALSE, fs |-> f, dest |-> adst, err |-> e]

\* the move of absolute asrc to absolute adst; clash: dst is a directory that
\* already holds the name
MoveAt(f, asrc, adst, clash) ==
    IF clash THEN MoveFails(f, adst, EEXIST)
    ELSE IF asrc \notin Paths(f) THEN MoveFails(f, adst, ENOENT)
    ELSE IF EntryAt(f, asrc).locked THEN MoveFails(f, adst, EACCES)
    ELSE IF ~IsDirAt(f, dirname(adst)) THEN MoveFails(f, adst, ENOTDIR)
    ELSE IF EntryAt(f, asrc).kind = "dir" /\ Under(adst, asrc) THEN MoveFails(f, adst, EINTO)
    ELSE IF adst \in Paths(f) /\ EntryAt(f, adst).kind # EntryAt(f, asrc).kind
    THEN MoveFails(f, adst, ENOTDIR)
    ELSE [ok |-> TRUE, fs |-> rename(f, asrc, adst), dest |-> adst, err |-> <<>>]

\* shutil.move(src, dst); [ok, fs, dest, err].  A failed move changes nothing.
move(f, src, dst) ==
    MoveAt(f, abspath(src), abspath(RealDst(f, src, dst)),
           isdir(f, dst) /\ exists(f, RealDst(f, src, dst)))

(***************************************************************************)
(* organize_files                                                          *)
(***************************************************************************)
\* IsSentinel as it would be had the "No files" test been forgotten
IsSentinel_ErrorOnly(files_to_move) ==
    files_to_move # <<>> /\ startswith(files_to_move[1], ErrorLit)

\* the sentinel test raises IndexError: with an empty list the left operand of `or`
\* is false and the right operand indexes files_to_move[0]
SentinelTestRaises(files_to_move) == files_to_move = <<>>

\* the sentinel test on a found list that holds an element
IsSentinel(files_to_move) ==
    (files_to_move # <<>> /\ startswith(files_to_move[1], ErrorLit))
    \/ startswith(files_to_move[1], NoFilesLit)

\* the while loop that looks for a free "<base>_<counter><extension>"
RECURSIVE FreeName(_, _, _, _, _)
FreeName(f, target_dir, base, extension, counter) ==
    LET destination == join(target_dir, base \o <<"_">> \o str(counter) \o extension)
    IN  IF exists(f, destination)
        THEN FreeName(f, target_dir, base, extension, counter + 1)
        ELSE destination

\* Destination as it would be without the duplicate handling
Destination_NoCheck(f, target_dir, filename) == join(target_dir, filename)

\* destination of a file name in the target directory, duplicates handled
Destination(f, target_dir, filename) ==
    LET destination == join(target_dir, filename)
    IN  IF exists(f, destination)
        THEN LET se == splitext(filename)
             IN  FreeName(f, target_dir, se[1], se[2], 1)
        ELSE destination

\* AlreadyInTarget as it would be had the target directory not been made absolute
AlreadyInTarget_NoAbspath(target_dir, file_path) == dirname(file_path) = target_dir

\* the test that skips a file already in the target directory
AlreadyInTarget(target_dir, file_path) == dirname(file_path) = abspath(target_dir)

\* what the loop records of the move m of the file named filename
MoveOutcome(filename, m) ==
    IF m.ok
    THEN [what |-> "moved", fs |-> m.fs, dest |-> m.dest, err |-> <<>>]
    ELSE [what |-> "error", fs |-> m.fs, dest |-> m.dest,
          err |-> FailedToMove \o filename \o <<":", " ">> \o m.err]

\* one iteration of the move loop; [what, fs, dest, err]
LoopBody(f, target_dir, file_path) ==
    IF AlreadyInTarget(target_dir, file_path)
    THEN [what |-> "skip", fs |-> f, dest |-> <<>>, err |-> <<>>]
    ELSE MoveOutcome(basename(file_path),
                     move(f, file_path, Destination(f, target_dir, basename(file_path))))

\* the status message composed at the end
ResultMsg(moved_count, target_dir, errors) ==
    SuccessfullyMoved \o str(moved_count) \o FilesTo \o target_dir \o <<".">>
    \o (IF errors # <<>> THEN ErrorsEncountered \o joinWith(<<";", " ">>, errors) ELSE <<>>)

(***************************************************************************)
(* Bounds and inputs of the tool model                                     *)
(***************************************************************************)
\* tool calls per behaviour
MaxCalls == 2
\* numbered files "NN.t" in the large trees (more than FindCap)
MaxBulk == 52
\* the large trees start at this many numbered files
NearCap == 49
\* extension arguments: ".T" normalises to "t"; nothing in the trees ends in ".p";
\* "." is all dots
Exts == {<<".", "T">>, <<"p">>, <<".">>}
\* search roots of direct find_files calls: a sub-directory, absolute, trailing slash
SearchPaths == {<<"/", "r", "/", "s", "/">>}
\* source_path arguments of organize_files: the root (relative to the cwd) and a sub-directory
SourcePaths == {<<"r">>, <<"/", "r", "/", "s">>}
\* target_folder_name arguments of organize_files
TargetNames == {<<"T">>}

Entry(p, k, i, l) == [path |-> p, kind |-> k, id |-> i, locked |-> l]

\* path of the i-th numbered file: odd ones in /r, even ones in /r/s
BulkPath(i) ==
    (IF i % 2 = 1 THEN <<"/", "r", "/">> ELSE <<"/", "r", "/", "s", "/">>)
    \o <<Digit(i \div 10), Digit(i % 10), ".", "t">>

\* optional parts of an initial tree
Groups == {"a", "sa", "T", "T1", "d", "db", "h"}

\* the initial tree with n numbered files, the groups G, and the entry `lock` locked
Tree(n, G, lock) ==
    <<Entry(<<"/", "r">>, "dir", 1, FALSE), Entry(<<"/", "r", "/", "s">>, "dir", 2, FALSE)>>
    \o (IF "a" \in G THEN <<Entry(<<"/", "r", "/", "a", ".", "t">>, "file", 3, lock = 3)>>
        ELSE <<>>)
    \o (IF "sa" \in G
        THEN <<Entry(<<"/", "r", "/", "s", "/", "a", ".", "t">>, "file", 4, FALSE)>>
        ELSE <<>>)
    \o (IF "T" \in G
        THEN <<Entry(<<"/", "r", "/", "T">>, "dir", 5, FALSE),
               Entry(<<"/", "r", "/", "T", "/", "a", ".", "t">>, "file", 6, FALSE)>>
        ELSE <<>>)
    \o (IF "T1" \in G
        THEN <<Entry(<<"/", "r", "/", "T", "/", "a", "_", "1", ".", "t">>, "file", 7, FALSE)>>
        ELSE <<>>)
    \o (IF "d" \in G
        THEN <<Entry(<<"/", "r", "/", "d", ".", "t">>, "dir", 8, FALSE)>>
        ELSE <<>>)
    \o (IF "db" \in G
        THEN <<Entry(<<"/", "r", "/", "d", ".", "t", "/", "b", ".", "t">>, "file", 9, FALSE)>>
        ELSE <<>>)
    \o (IF "h" \in G
        THEN <<Entry(<<"/", "r", "/", ".", "h", ".", "t">>, "file", 10, FALSE)>>
        ELSE <<>>)
    \o [i \in 1..n |-> Entry(BulkPath(i), "file", 100 + i, lock = 100 + i)]

\* the trees the model starts from: every small tree (no numbered files), and
\* large trees of numbered files around the cap
InitTrees ==
    {Tree(0, G, lock) :
        G \in {H \in SUBSET Groups : ("T1" \in H => "T" \in H) /\ ("db" \in H => "d" \in H)},
        lock \in {0, 3}}
    \cup {Tree(n, {}, 0) : n \in NearCap..MaxBulk}

(***************************************************************************)
(* The tool calls                                                          *)
(***************************************************************************)
NoPrev == [op |-> "none", ext |-> <<>>, path |-> <<>>, target |-> <<>>]

NoLast == [op |-> "none", ext |-> <<>>, path |-> <<>>, target |-> <<>>, pattern |-> <<>>,
           mkdir |-> "none", status |-> "none", raised |-> FALSE, ret |-> <<>>, out |-> {},
           found |-> <<>>, target_dir |-> <<>>, moved_count |-> 0, errors |-> <<>>,
           log |-> <<>>, fs0 |-> <<>>, prev |-> NoPrev]

NoOrg == [ext |-> <<>>, path |-> <<>>, target |-> <<>>, pattern |-> <<>>,
          mkdir |-> "none", files_to_move |-> <<>>,
          out |-> {}, target_dir |-> <<>>, i |-> 0, moved_count |-> 0, errors |-> <<>>,
          log |-> <<>>, fs0 |-> <<>>, before |-> <<>>, prev |-> NoPrev]

\* the arguments of the latest completed organize_files call
PrevOf(l) ==
    IF l.op = "organize"
    THEN [op |-> l.op, ext |-> l.ext, path |-> l.path, target |-> l.target]
    ELSE l.prev

\* a call of find_files by the dispatcher
FindFiles(file_extension, search_path, raises) ==
    /\ pc = "idle"
    /\ calls < MaxCalls
    /\ LET r == find_files(fs, file_extension, search_path, raises)
       IN  last' = [NoLast EXCEPT !.op = "find", !.ext = file_extension,
                                  !.path = search_path, !.raised = raises,
                                  !.pattern = r.pattern,
                                  !.status = "returned", !.ret = r.ret, !.out = r.out,
                                  !.fs0 = fs, !.prev = PrevOf(last)]
    /\ calls' = calls + 1
    /\ UNCHANGED <<fs, pc, org, chat>>

\* the record of an organize_files call with these arguments and this find result
OrgRecord(file_extension, source_path, target_folder_name, raises, r) ==
    [NoLast EXCEPT !.op = "organize", !.ext = file_extension, !.path = source_path,
                   !.target = target_folder_name, !.raised = raises, !.out = r.out,
                   !.pattern = r.pattern, !.found = r.ret, !.fs0 = fs, !.prev = PrevOf(last)]

\* organize_files returns the sentinel of the find step
OrgSentinel(rec) ==
    /\ last' = [rec EXCEPT !.status = "sentinel", !.ret = <<rec.found[1]>>]
    /\ UNCHANGED <<fs, pc, org>>

\* organize_files is left by the IndexError of the sentinel test
OrgIndexError(rec) ==
    /\ last' = [rec EXCEPT !.status = "index_error"]
    /\ UNCHANGED <<fs, pc, org>>

\* organize_files returns because the target directory could not be created
OrgMkdirFailed(rec, target_dir, mk) ==
    /\ last' = [rec EXCEPT !.status = "mkdir_failed", !.target_dir = target_dir,
                           !.ret = <<FailedToCreate \o mk.err>>]
    /\ UNCHANGED <<fs, pc, org>>

\* organize_files enters the move loop, the target directory in place
OrgEnterLoop(rec, target_dir, fs1) ==
    /\ fs' = fs1
    /\ pc' = "moving"
    /\ last' = NoLast
    /\ org' = [NoOrg EXCEPT !.ext = rec.ext, !.path = rec.path, !.target = rec.target,
                            !.pattern = rec.pattern, !.mkdir = rec.mkdir,
                            !.files_to_move = rec.found, !.out = rec.out,
                            !.target_dir = target_dir, !.i = 1,
                            !.fs0 = fs, !.prev = rec.prev]

\* steps 1 and 2 of organize_files with the except clause of makedirs left out
OrgBegin_NoAbort(rec, target_dir, missing, mk) ==
    IF SentinelTestRaises(rec.found) THEN OrgIndexError(rec)
    ELSE IF IsSentinel(rec.found) THEN OrgSentinel(rec)
    ELSE IF missing /\ ~mk.ok
    THEN OrgEnterLoop([rec EXCEPT !.mkdir = "failed"], target_dir, fs)
    ELSE OrgEnterLoop([rec EXCEPT !.mkdir = IF missing THEN "created" ELSE "none"],
                      target_dir, IF missing THEN mk.fs ELSE fs)

\* steps 1 and 2 of organize_files, given the find result and the outcome mk of makedirs;
\* mkdir records whether makedirs was called and how it ended
OrgBegin(rec, target_dir, missing, mk) ==
    IF SentinelTestRaises(rec.found) THEN OrgIndexError(rec)
    ELSE IF IsSentinel(rec.found) THEN OrgSentinel(rec)
    ELSE IF missing /\ ~mk.ok
    THEN OrgMkdirFailed([rec EXCEPT !.mkdir = "failed"], target_dir, mk)
    ELSE OrgEnterLoop([rec EXCEPT !.mkdir = IF missing THEN "created" ELSE "none"],
                      target_dir, IF missing THEN mk.fs ELSE fs)

\* organize_files up to the move loop: find, sentinel test, target directory;
\* raises: the traversal raises; mkfail: makedirs raises
OrgCall(file_extension, source_path, target_folder_name, raises, mkfail) ==
    /\ pc = "idle"
    /\ calls < MaxCalls
    /\ calls' = calls + 1
    /\ OrgBegin(OrgRecord(file_extension, source_path, target_folder_name, raises,
                          find_files(fs, file_extension, source_path, raises)),
                join(source_path, target_folder_name),
                ~exists(fs, join(source_path, target_folder_name)),
                IF mkfail THEN [ok |-> FALSE, fs |-> fs, err |-> EACCES]
                ELSE makedirs(fs, join(source_path, target_folder_name)))
    /\ UNCHANGED chat

\* the effect of one iteration, b, of the move loop on file_path
OrgRecordStep(file_path, b) ==
    /\ fs' = b.fs
    /\ org' = [org EXCEPT
          !.i = @ + 1,
          !.before = fs,
          !.moved_count = IF b.what = "moved" THEN @ + 1 ELSE @,
          !.errors = IF b.what = "error" THEN Append(@, b.err) ELSE @,
          !.log = Append(@, [file |-> file_path, what |-> b.what, dest |-> b.dest])]

\* one iteration of the move loop
OrgStep ==
    /\ pc = "moving"
    /\ org.i <= Len(org.files_to_move)
    /\ OrgRecordStep(org.files_to_move[org.i],
                     LoopBody(fs, org.target_dir, org.files_to_move[org.i]))
    /\ UNCHANGED <<pc, calls, last, chat>>

\* the end of the move loop: compose and return the status message
OrgReturn ==
    /\ pc = "moving"
    /\ org.i > Len(org.files_to_move)
    /\ pc' = "idle"
    /\ last' = [NoLast EXCEPT !.op = "organize", !.ext = org.ext, !.path = org.path,
                              !.target = org.target, !.pattern = org.pattern,
                              !.mkdir = org.mkdir, !.status = "done", !.out = org.out,
                              !.found = org.files_to_move, !.target_dir = org.target_dir,
                              !.moved_count = org.moved_count, !.errors = org.errors,
                              !.log = org.log, !.fs0 = org.fs0, !.prev = org.prev,
                              !.ret = <<ResultMsg(org.moved_count, org.target_dir, org.errors)>>]
    /\ org' = NoOrg
    /\ UNCHANGED <<fs, calls, chat>>

NoChat == [pc |-> "off", user_input |-> <<>>, retry_count |-> 0, turns |-> <<>>]

InitTools ==
    /\ fs \in InitTrees
    /\ pc = "idle"
    /\ calls = 0
    /\ last = NoLast
    /\ org = NoOrg
    /\ chat = NoChat

NextTools ==
    \/ \E e \in Exts, p \in SearchPaths, x \in BOOLEAN : FindFiles(e, p, x)
    \/ \E e \in Exts, p \in SourcePaths, t \in TargetNames, x \in BOOLEAN, m \in BOOLEAN :
          OrgCall(e, p, t, x, m)
    \/ OrgStep
    \/ OrgReturn

SpecTools == InitTools /\ [][NextTools]_vars

(***************************************************************************)
(* Properties of find_files                                                *)
(***************************************************************************)
Entries(f) == {f[i] : i \in 1..Len(f)}

\* no member of a sequence occurs twice
NoDuplicates(q) == \A i, j \in 1..Len(q) : q[i] = q[j] => i = j

\* the path components of ap below the directory root
Below(ap, root) == split(SubSeq(ap, Len(root) + 2, Len(ap)))

\* the regular files below search_path whose name ends in ".<ext>" and that a
\* glob can see (no component below the root starts with a dot)
MatchingFiles(f, search_path, ext) ==
    LET root == abspath(search_path)
    IN  {e \in Entries(f) :
            /\ e.kind = "file"
            /\ e.path # root /\ Under(e.path, root)
            /\ \A j \in 1..Len(Below(e.path, root)) : ~ishidden(Below(e.path, root)[j])
            /\ endswith(basename(e.path), <<".">> \o ext)}

\* the absolute paths of the matching regular files, in traversal order
MatchingInOrder(f, search_path, ext) ==
    LET all == iglob(f, search_path, ext)
        abs == [i \in 1..Len(all) |-> abspath(all[i])]
    IN  SelectSeq(abs, LAMBDA p : EntryAt(f, p).kind = "file")

\* the list find_files returned in the last call, direct or inside organize_files
FoundOf(l) == IF l.op = "find" THEN l.ret ELSE l.found

\* the last call ran find_files and its traversal raised nothing
FindReturned == last.op \in {"find", "organize"} /\ ~last.raised

\* C1: with N >= 1 matching files under the search root, find_files returns exactly
\* min(N, 50) entries: the first min(N, 50) matching files in traversal order, without
\* duplicates, each a matching file under the root.
C1_FindReturnsFirstMatchingFiles ==
    FindReturned =>
        LET ext   == CleanExt(last.ext)
            M     == MatchingFiles(last.fs0, last.path, ext)
            N     == Cardinality(M)
            found == FoundOf(last)
        IN  N >= 1 =>
              /\ Len(found) = Min(N, FindCap)
              /\ found = SubSeq(MatchingInOrder(last.fs0, last.path, ext), 1, Min(N, FindCap))
              /\ NoDuplicates(found)
              /\ \A i \in 1..Len(found) : found[i] \in {e.path : e \in M}

\* C2: when no file under the search root matches and the traversal raises nothing,
\* find_files returns exactly one element, which starts with "No files with extension".
C2_NoMatchGivesNoFilesSentinel ==
    (FindReturned /\ MatchingFiles(last.fs0, last.path, CleanExt(last.ext)) = {}) =>
        /\ Len(FoundOf(last)) = 1
        /\ startswith(FoundOf(last)[1], <<"N", "o", " ", "f", "i", "l", "e", "s", " ", "w", "i", "t", "h", " ", "e", "x", "t", "e", "n", "s", "i", "o", "n">>)

(***************************************************************************)
(* Properties of organize_files                                            *)
(***************************************************************************)
\* C3: when the find step yields a sentinel (first entry starts with "Error" or
\* "No files"), organize_files returns that sentinel and leaves the file system as
\* it was: no directory created, nothing moved or renamed.
C3_SentinelReturnedTreeUntouched ==
    (/\ last.op = "organize"
     /\ last.found # <<>>
     /\ \/ startswith(last.found[1], <<"E", "r", "r", "o", "r">>)
        \/ startswith(last.found[1], <<"N", "o", " ", "f", "i", "l", "e", "s">>)) =>
        /\ pc = "idle"
        /\ last.ret = <<last.found[1]>>
        /\ last.log = <<>> /\ last.moved_count = 0
        /\ fs = last.fs0

\* an organize_files call returned the find step's sentinel although the tree holds files
C3_Witness ==
    /\ last.op = "organize" /\ last.status = "sentinel"
    /\ Len(last.fs0) > 2
    /\ last.ret = <<NoFilesWithExtension \o <<"p">> \o FoundIn \o last.path>>

\* the organize_files call in progress, or else the last one that reached the move loop
Batch ==
    IF pc = "moving"
    THEN [active |-> TRUE, path |-> org.path, target |-> org.target, ext |-> org.ext,
          log |-> org.log, moved_count |-> org.moved_count, errors |-> org.errors,
          fs0 |-> org.fs0, prev |-> org.prev]
    ELSE [active |-> last.op = "organize" /\ last.status = "done",
          path |-> last.path, target |-> last.target, ext |-> last.ext,
          log |-> last.log, moved_count |-> last.moved_count, errors |-> last.errors,
          fs0 |-> last.fs0, prev |-> last.prev]

\* the call repeats the arguments of the organize_files call before it
SameAsPrevious(b) ==
    b.prev = [op |-> "organize", ext |-> b.ext, path |-> b.path, target |-> b.target]

\* C4: a found file whose containing directory is the resolved target directory is
\* left in place, not counted in moved_count and produces no error; hence in the
\* second of two calls with the same arguments every file already in the target
\* directory keeps its name (none is re-moved to a suffixed duplicate).
C4_FilesInTargetAreSkipped ==
    Batch.active =>
        LET tdir   == abspath(join(Batch.path, Batch.target))
            log    == Batch.log
            inT(p) == p = tdir \o <<"/">> \o basename(p)
        IN  /\ \A i \in 1..Len(log) :
                 inT(log[i].file) =>
                    /\ log[i].what = "skip"
                    /\ \E e \in Entries(fs) :
                          e.path = log[i].file /\ e = EntryAt(Batch.fs0, log[i].file)
            /\ Batch.moved_count = Cardinality({i \in 1..Len(log) : log[i].what = "moved"})
            /\ Len(Batch.errors) = Cardinality({i \in 1..Len(log) : log[i].what = "error"})
            /\ SameAsPrevious(Batch) =>
                  \A e \in Entries(Batch.fs0) : inT(e.path) => e \in Entries(fs)

\* the second of two identical calls met, and skipped, a file that the collision
\* handling of an earlier move had named a_1.t
C4_Witness ==
    /\ pc = "idle" /\ calls = 2 /\ Batch.active /\ SameAsPrevious(Batch)
    /\ \E i \in 1..Len(last.log) :
          /\ last.log[i].what = "skip"
          /\ last.log[i].file = <<"/", "r", "/", "T", "/", "a", "_", "1", ".", "t">>
    /\ \E e \in Entries(fs) : e.path = <<"/", "r", "/", "T", "/", "a", "_", "1", ".", "t">> /\ e.id = 4

\* C5: a move never lands on a path that exists: when target/<base><ext> exists as the
\* file is processed, the file goes to target/<base>_k<ext> for the smallest k >= 1 whose
\* path is free then, and everything that was in the target directory is still there
\* with its name and content.
C5_MoveNeverOverwrites ==
    (pc = "moving" /\ org.log # <<>> /\ org.log[Len(org.log)].what = "moved") =>
        LET before  == org.before
            step    == org.log[Len(org.log)]
            tdir    == abspath(org.target_dir)
            name    == basename(step.file)
            se      == splitext(name)
            plain   == tdir \o <<"/">> \o name
            cand(k) == tdir \o <<"/">> \o se[1] \o <<"_">> \o str(k) \o se[2]
        IN  /\ step.dest \notin Paths(before)
            /\ IF plain \notin Paths(before)
               THEN step.dest = plain
               ELSE \E k \in 1..(Len(before) + 1) :
                       /\ step.dest = cand(k)
                       /\ \A j \in 1..(k - 1) : cand(j) \in Paths(before)
            /\ \E e \in Entries(fs) :
                  e.path = step.dest /\ e.id = EntryAt(before, step.file).id
            /\ \A e \in Entries(before) : dirname(e.path) = tdir => e \in Entries(fs)

\* /r/a.t was moved while the target held a.t and a_1.t, and became a_2.t
C5_Witness ==
    /\ pc = "moving" /\ org.log # <<>>
    /\ LET step == org.log[Len(org.log)]
       IN  /\ step.what = "moved"
           /\ step.file = <<"/", "r", "/", "a", ".", "t">>
           /\ step.dest = <<"/", "r", "/", "T", "/", "a", "_", "2", ".", "t">>
           /\ {<<"/", "r", "/", "T", "/", "a", ".", "t">>, <<"/", "r", "/", "T", "/", "a", "_", "1", ".", "t">>} \subseteq Paths(org.before)

\* C11: in every find_files call, direct or inside organize_files, the normalised
\* extension (lower-cased, leading dots stripped) that completes the glob pattern
\* "**/*.<ext>" is not empty.
C11_NormalisedExtensionNonEmpty ==
    last.op \in {"find", "organize"} =>
        last.pattern # join(last.path, <<"*", "*", "/", "*", ".">>)

\* C12: a failed move does not abort the batch: each failure adds exactly one entry to
\* errors and none to moved_count, the file whose move failed is still at its source
\* path (the same file as before the call), and the call returns only after every
\* file of the found list has been processed, in order.
C12_FailedMoveDoesNotAbort ==
    Batch.active =>
        LET log == Batch.log
        IN  /\ Len(Batch.errors) = Cardinality({i \in 1..Len(log) : log[i].what = "error"})
            /\ Batch.moved_count = Cardinality({i \in 1..Len(log) : log[i].what = "moved"})
            /\ \A i \in 1..Len(log) :
                  log[i].what = "error" =>
                     \E e \in Entries(fs) :
                        e.path = log[i].file /\ e = EntryAt(Batch.fs0, log[i].file)
            /\ pc = "idle" =>
                  /\ Len(log) = Len(last.found)
                  /\ \A i \in 1..Len(log) : log[i].file = last.found[i]

\* C13: when the target directory does not exist and creating it fails, organize_files
\* never enters the move loop: it returns one status string that describes the failure,
\* and the file system is as it was, every found file still at its original path.
C13_MkdirFailureMovesNothing ==
    /\ pc = "moving" => org.mkdir # "failed"
    /\ (last.op = "organize" /\ last.mkdir = "failed") =>
          /\ ~exists(last.fs0, join(last.path, last.target))
          /\ last.status = "mkdir_failed"
          /\ Len(last.ret) = 1
          /\ startswith(last.ret[1], <<"F", "a", "i", "l", "e", "d", " ", "t", "o", " ", "c", "r", "e", "a", "t", "e", " ", "t", "a", "r", "g", "e", "t", " ", "d", "i", "r", "e", "c", "t", "o", "r", "y">>)
          /\ last.log = <<>> /\ last.moved_count = 0
          /\ fs = last.fs0
          /\ \A i \in 1..Len(last.found) : last.found[i] \in Paths(fs)

\* creating the target directory failed in a call that had found two or more files
C13_Witness ==
    /\ last.op = "organize" /\ last.status = "mkdir_failed"
    /\ Len(last.found) >= 2
    /\ ~exists(fs, join(last.path, last.target))
    /\ last.found[1] \in Paths(fs)

\* a matching file under the search root of the last call is missing from its result
LeftOut ==
    \E e \in MatchingFiles(last.fs0, last.path, CleanExt(last.ext)) :
        \A i \in 1..Len(FoundOf(last)) : FoundOf(last)[i] # e.path

\* C14 as claimed: the truncation notice is printed exactly when matching files were
\* left out of the returned list, and not when every matching file is in the list.
C14_NoticeIffTruncated ==
    FindReturned => (("cap" \in last.out) <=> LeftOut)

\* C14, amended: the truncation notice is printed exactly when the returned list holds
\* 50 paths, the cap; so it is printed whenever matching files were left out, never
\* when fewer than 50 paths match, and also when exactly 50 match and none is left out.
C14_NoticeIffCapReached ==
    last.op \in {"find", "organize"} =>
        /\ ("cap" \in last.out) <=> (~last.raised /\ Len(FoundOf(last)) = FindCap)
        /\ (~last.raised /\ LeftOut) => "cap" \in last.out
        /\ Len(iglob(last.fs0, last.path, CleanExt(last.ext))) < FindCap => "cap" \notin last.out

\* exactly 50 files match, all of them are returned, and the notice was printed
C14_Witness ==
    /\ FindReturned /\ "cap" \in last.out
    /\ Cardinality(MatchingFiles(last.fs0, last.path, CleanExt(last.ext))) = FindCap
    /\ Len(FoundOf(last)) = FindCap
    /\ ~LeftOut

\* C15: find_files never returns an empty list, whether the traversal raised, matched
\* nothing or matched something; so the sentinel test of organize_files, which indexes
\* the first element, never raises an index error.
C15_FoundListNeverEmpty ==
    /\ last.op \in {"find", "organize"} => Len(FoundOf(last)) >= 1
    /\ pc = "moving" => Len(org.files_to_move) >= 1
    /\ last.status # "index_error"

\* organize_files indexed the one-element list of a search that matched nothing
C15_Witness ==
    /\ last.op = "organize" /\ last.status = "sentinel" /\ ~last.raised
    /\ Len(last.found) = 1
    /\ iglob(last.fs0, last.path, CleanExt(last.ext)) = <<>>

\* the regular files of file system f
FilesOf(f) == {e \in Entries(f) : e.kind = "file"}

\* the regular files of f that lie directly in directory d (an absolute path)
FilesIn(f, d) == {e \in FilesOf(f) : dirname(e.path) = d}

\* C16: an organize_files call that reaches the move loop accounts for each found file
\* exactly once and loses none: processed files = moved_count + skipped + errors (all
\* found files once the call returns); the number of files in the target directory
\* has grown by exactly moved_count; the number of files in the tree is unchanged; and
\* two found files with the same base name, both moved, end at two distinct paths that
\* exist in the target directory.
C16_BatchAccounting ==
    Batch.active =>
        LET log  == Batch.log
            tdir == abspath(join(Batch.path, Batch.target))
            moved == {i \in 1..Len(log) : log[i].what = "moved"}
        IN  /\ Len(log) = Batch.moved_count + Len(Batch.errors)
                           + Cardinality({i \in 1..Len(log) : log[i].what = "skip"})
            /\ pc = "idle" => Len(log) = Len(last.found)
            /\ Cardinality(FilesIn(fs, tdir))
                  = Cardinality(FilesIn(Batch.fs0, tdir)) + Batch.moved_count
            /\ Cardinality(FilesOf(fs)) = Cardinality(FilesOf(Batch.fs0))
            /\ \A i, j \in moved :
                  (i # j /\ basename(log[i].file) = basename(log[j].file)) =>
                     /\ log[i].dest # log[j].dest
                     /\ {log[i].dest, log[j].dest} \subseteq Paths(fs)
                     /\ dirname(log[i].dest) = tdir /\ dirname(log[j].dest) = tdir

(***************************************************************************)
(* chat_session                                                            *)
(***************************************************************************)
\* user inputs read per behaviour
MaxInputs == 2

\* max_retries of the retry loop
max_retries == 3

ExitLit == <<"e", "x", "i", "t">>
QuitLit == <<"q", "u", "i", "t">>

\* the lines the user may type
UserInputs == {<<"e", "x", "i", "t">>, <<"Q", "U", "I", "T">>, <<"h", "i">>, <<"e", "x", "i", "t", " ">>}

\* str(e) of the exceptions send_message may raise
SendErrors == {<<"4", "2", "9", " ", "q", "u", "o", "t", "a">>, <<"l", "i", "m", "i", "t", " ", "(", "4", "2", "9", ")">>, <<"5", "0", "0", " ", "d", "o", "w", "n">>}

\* sub in s
Contains(s, sub) ==
    \E i \in 1..(Len(s) - Len(sub) + 1) : SubSeq(s, i, i + Len(sub) - 1) = sub

\* IsRateLimit as it would be if every failure were taken for a rate limit
IsRateLimit_Any(error_str) == Len(error_str) >= 0

\* "429" in error_str
IsRateLimit(error_str) == Contains(error_str, <<"4", "2", "9">>)

\* IsExit as it would be without the lower-casing
IsExit_CaseSensitive(user_input) == user_input \in {ExitLit, QuitLit}

\* user_input.lower() in ['exit', 'quit']
IsExit(user_input) == lower(user_input) \in {ExitLit, QuitLit}

\* WaitTime as it would be with a constant backoff
WaitTime_Constant(retry_count) == IF retry_count >= 0 THEN 10 ELSE 0

\* wait_time = 10 * retry_count
WaitTime(retry_count) == 10 * retry_count

\* the while condition of the retry loop
MayRetry(retry_count) == retry_count < max_retries

\* Exhausted as it would be with a strict comparison
Exhausted_Strict(retry_count) == retry_count > max_retries

\* the test after the retry loop
Exhausted(retry_count) == retry_count >= max_retries

\* what is recorded of the turn of one user input: the input, the send attempts'
\* outcomes (<<>> for a reply, else str(e)), the sleeps, the retries announced and
\* the lines printed
NewTurn(user_input) ==
    [input |-> user_input, outcomes |-> <<>>, sleeps |-> <<>>, announced |-> <<>>,
     console |-> <<>>]

GoodbyeLine == [line |-> "Goodbye!", text |-> <<>>]
ReplyLine == [line |-> "Robot:", text |-> <<>>]
RateLimitLine == [line |-> "Rate limit hit.", text |-> <<>>]
ExhaustedLine == [line |-> "Error: Could not get a response", text |-> <<>>]
ErrorLine(e) == [line |-> "An error occurred:", text |-> e]

InitChat ==
    /\ fs = <<>>
    /\ pc = "idle"
    /\ calls = 0
    /\ last = NoLast
    /\ org = NoOrg
    /\ chat = [pc |-> "input", user_input |-> <<>>, retry_count |-> 0, turns |-> <<>>]

\* the reading of an input had retry_count been initialised once, before the session loop
ReadInput_NoReset(user_input) ==
    /\ chat.pc = "input"
    /\ Len(chat.turns) < MaxInputs
    /\ chat' = IF IsExit(user_input)
               THEN [chat EXCEPT
                       !.pc = "done", !.user_input = user_input,
                       !.turns = Append(@, [NewTurn(user_input) EXCEPT
                                              !.console = <<GoodbyeLine>>])]
               ELSE [chat EXCEPT
                       !.pc = IF MayRetry(chat.retry_count) THEN "send" ELSE "input",
                       !.user_input = user_input,
                       !.turns = Append(@, NewTurn(user_input))]
    /\ UNCHANGED <<fs, pc, calls, last, org>>

\* input("You: ") and the exit test; a message enters the retry loop
ReadInput(user_input) ==
    /\ chat.pc = "input"
    /\ Len(chat.turns) < MaxInputs
    /\ chat' = IF IsExit(user_input)
               THEN [chat EXCEPT
                       !.pc = "done", !.user_input = user_input,
                       !.turns = Append(@, [NewTurn(user_input) EXCEPT
                                              !.console = <<GoodbyeLine>>])]
               ELSE [chat EXCEPT
                       !.pc = IF MayRetry(0) THEN "send" ELSE "input",
                       !.user_input = user_input, !.retry_count = 0,
                       !.turns = Append(@, NewTurn(user_input))]
    /\ UNCHANGED <<fs, pc, calls, last, org>>

\* chat.send_message succeeds: the reply is printed, the retry loop is left,
\* and the test after the loop is made
SendOk ==
    /\ chat.pc = "send"
    /\ LET n == Len(chat.turns)
       IN  chat' = [chat EXCEPT
                  !.pc = "input",
                  !.turns[n].outcomes = Append(@, <<>>),
                  !.turns[n].console = Append(@, ReplyLine)
                                       \o (IF Exhausted(chat.retry_count)
                                           THEN <<ExhaustedLine>> ELSE <<>>)]
    /\ UNCHANGED <<fs, pc, calls, last, org>>

\* chat.send_message raises: a rate-limit error is counted, announced and slept on,
\* then the while condition is tested again and, when it fails, the test after the
\* loop is made; any other error is re-raised to the outer handler, which prints it
SendRaises(error_str) ==
    /\ chat.pc = "send"
    /\ LET n == Len(chat.turns)
       IN  IF IsRateLimit(error_str)
           THEN LET retry_count == chat.retry_count + 1
                    wait_time   == WaitTime(retry_count)
                IN  chat' = [chat EXCEPT
                      !.retry_count = retry_count,
                      !.pc = IF MayRetry(retry_count) THEN "send" ELSE "input",
                      !.turns[n].outcomes = Append(@, error_str),
                      !.turns[n].announced = Append(@, retry_count),
                      !.turns[n].sleeps = Append(@, wait_time),
                      !.turns[n].console =
                          Append(@, RateLimitLine)
                          \o (IF ~MayRetry(retry_count) /\ Exhausted(retry_count)
                              THEN <<ExhaustedLine>> ELSE <<>>)]
           ELSE chat' = [chat EXCEPT
                      !.pc = "input",
                      !.turns[n].outcomes = Append(@, error_str),
                      !.turns[n].console = Append(@, ErrorLine(error_str))]
    /\ UNCHANGED <<fs, pc, calls, last, org>>

NextChat ==
    \/ \E u \in UserInputs : ReadInput(u)
    \/ SendOk
    \/ \E e \in SendErrors : SendRaises(e)

SpecChat == InitChat /\ [][NextChat]_vars

(***************************************************************************)
(* Properties of chat_session                                              *)
(***************************************************************************)
\* a send attempt's outcome is a rate-limit failure: an error whose text holds "429"
Is429(outcome) == Contains(outcome, <<"4", "2", "9">>)

\* a send attempt's outcome is a reply
IsReply(outcome) == outcome = <<>>

\* the n-th turn is over: the loop has left its retry loop
TurnOver(n) == n < Len(chat.turns) \/ chat.pc # "send"

\* the n-th turn was followed by a prompt for the next input
NextPrompt(n) == n < Len(chat.turns) \/ chat.pc = "input"

\* how often a line was printed in a turn
Printed(turn, l) == Cardinality({i \in 1..Len(turn.console) : turn.console[i] = l})

Turns == 1..Len(chat.turns)

\* C6: while the sends of one input keep failing with 429, every announced
\* "retry k/3" (k = 1, 2, 3) and its wait of 10 x k seconds is followed by another
\* send attempt of the same message.
C6_AnnouncedRetryIsSent ==
    \A n \in Turns :
        LET t == chat.turns[n]
        IN  /\ t.sleeps = [k \in 1..Len(t.announced) |-> 10 * t.announced[k]]
            /\ t.announced = [k \in 1..Len(t.announced) |-> k]
            /\ Len(t.announced) <= 3
            /\ TurnOver(n) => \A k \in 1..Len(t.announced) : Len(t.outcomes) > k

\* C7: when the first k-1 sends fail with 429 and the k-th succeeds (k <= 3), the loop
\* sleeps 10, 20, ..., 10(k-1) seconds in that order, prints the reply once and no
\* exhausted-retries notice, and goes on to the next prompt.
C7_SuccessAfterRateLimits ==
    \A n \in Turns :
        LET t == chat.turns[n]
            k == Len(t.outcomes)
        IN  (/\ k \in 1..3
             /\ IsReply(t.outcomes[k])
             /\ \A j \in 1..(k - 1) : Is429(t.outcomes[j])) =>
               /\ t.sleeps = [j \in 1..(k - 1) |-> 10 * j]
               /\ Printed(t, ReplyLine) = 1
               /\ Printed(t, ExhaustedLine) = 0
               /\ NextPrompt(n)

\* two rate-limit failures, then a reply on the third send
C7_Witness ==
    \E n \in Turns :
        LET t == chat.turns[n]
        IN  /\ Len(t.outcomes) = 3
            /\ Is429(t.outcomes[1]) /\ Is429(t.outcomes[2]) /\ IsReply(t.outcomes[3])
            /\ t.sleeps = <<10, 20>>

\* C8: a failure whose text does not hold "429" is never retried: it is the last send
\* of its input, no sleep follows it, the error is printed and the loop goes to the
\* next prompt, also after earlier 429 failures of the same input.
C8_OtherFailureNotRetried ==
    \A n \in Turns :
        LET t == chat.turns[n]
        IN  \A j \in 1..Len(t.outcomes) :
               (~IsReply(t.outcomes[j]) /\ ~Is429(t.outcomes[j])) =>
                  /\ j = Len(t.outcomes)
                  /\ Len(t.sleeps) = j - 1
                  /\ t.console[Len(t.console)] = ErrorLine(t.outcomes[j])
                  /\ Printed(t, ErrorLine(t.outcomes[j])) = 1
                  /\ NextPrompt(n)

\* a non-429 failure on the second send, after a 429 failure on the first
C8_Witness ==
    \E n \in Turns :
        LET t == chat.turns[n]
        IN  /\ Len(t.outcomes) = 2 /\ Is429(t.outcomes[1])
            /\ t.outcomes[2] = <<"5", "0", "0", " ", "d", "o", "w", "n">>
            /\ NextPrompt(n)

\* C9: the exhausted-retries notice is printed for an input exactly when every send
\* the loop permits for it failed with 429; never after a reply or another failure;
\* and after it the loop awaits the next input.
C9_ExhaustedNoticeIffAllRateLimited ==
    \A n \in Turns :
        LET t == chat.turns[n]
            allFailed == /\ TurnOver(n)
                         /\ t.outcomes # <<>>
                         /\ \A j \in 1..Len(t.outcomes) : Is429(t.outcomes[j])
        IN  /\ Printed(t, ExhaustedLine) = IF allFailed THEN 1 ELSE 0
            /\ Printed(t, ExhaustedLine) > 0 =>
                  /\ t.console[Len(t.console)] = ExhaustedLine
                  /\ NextPrompt(n)

\* the notice was printed after three rate-limit failures
C9_Witness ==
    \E n \in Turns :
        LET t == chat.turns[n]
        IN  /\ Len(t.outcomes) = 3
            /\ \A j \in 1..3 : Is429(t.outcomes[j])
            /\ Printed(t, ExhaustedLine) = 1

\* C10: the loop ends exactly when the input, lowercased, is "exit" or "quit" (a
\* farewell is printed, nothing is sent); no outcome of the dispatcher ends it: after
\* a reply, a non-429 failure or exhausted retries the loop reads the next input.
C10_EndsOnlyOnExitOrQuit ==
    /\ chat.pc = "done" <=>
          /\ chat.turns # <<>>
          /\ lower(chat.turns[Len(chat.turns)].input) \in {<<"e", "x", "i", "t">>, <<"q", "u", "i", "t">>}
    /\ \A n \in Turns :
          LET t == chat.turns[n]
          IN  IF lower(t.input) \in {<<"e", "x", "i", "t">>, <<"q", "u", "i", "t">>}
              THEN t.outcomes = <<>> /\ t.console = <<GoodbyeLine>> /\ n = Len(chat.turns)
              ELSE /\ Printed(t, GoodbyeLine) = 0
                   /\ (TurnOver(n) => t.outcomes # <<>> /\ NextPrompt(n))

\* the loop went on after exhausted retries, and ended on "QUIT"
C10_Witness ==
    /\ chat.pc = "done"
    /\ Len(chat.turns) = 2
    /\ chat.turns[1].console[Len(chat.turns[1].console)] = ExhaustedLine
    /\ chat.turns[2].input = <<"Q", "U", "I", "T">>

\* C17: the retry budget is per user input: whatever happened on earlier inputs, an
\* input's first send is always made, its k-th rate-limit failure is announced as
\* retry k and waited on for 10 x k seconds, the counter equals the number of rate-limit
\* failures of this input alone, and the input is given up only after max_retries
\* rate-limited sends of its own.
C17_RetryBudgetPerInput ==
    \A n \in Turns :
        LET t    == chat.turns[n]
            exit == t.console # <<>> /\ t.console[1] = GoodbyeLine
            r429 == {k \in 1..Len(t.outcomes) : Is429(t.outcomes[k])}
        IN  ~exit =>
              /\ TurnOver(n) => Len(t.outcomes) >= 1
              /\ t.announced = [k \in 1..Cardinality(r429) |-> k]
              /\ t.sleeps = [k \in 1..Cardinality(r429) |-> 10 * k]
              /\ (n = Len(chat.turns) /\ chat.pc = "send") =>
                    chat.retry_count = Cardinality(r429)
              /\ TurnOver(n) =>
                    \/ ~Is429(t.outcomes[Len(t.outcomes)])
                    \/ Len(t.outcomes) = max_retries

\* after an input whose three sends were all rate-limited, the next input was sent
\* three times, waiting 10 and 20 seconds, and answered
C17_Witness ==
    /\ Len(chat.turns) = 2 /\ chat.pc = "input"
    /\ Len(chat.turns[1].outcomes) = 3
    /\ \A k \in 1..3 : Is429(chat.turns[1].outcomes[k])
    /\ Len(chat.turns[2].outcomes) = 3
    /\ chat.turns[2].sleeps = <<10, 20>>
    /\ IsReply(chat.turns[2].outcomes[3])

(***************************************************************************)
(* The whole program: the session loop, and the tools its dispatcher calls *)
(***************************************************************************)
Init == InitTools \/ InitChat

Next == NextTools \/ NextChat

Spec == Init /\ [][Next]_vars
====
